---- MODULE Spec2Model ----
(***************************************************************************)
(* A model of the go-clamd client: the connection protocol engine          *)
(* (conn.go: sendCommand, sendChunk, sendEOF, readResponse, parseResult)   *)
(* and the command facade built on it (simpleCommand, Ping, Reload,        *)
(* Stats, Shutdown, Version, ScanStream).                                  *)
(*                                                                         *)
(* Text is a sequence of one-character strings.  One behaviour is one      *)
(* facade call on its own connection, together with the goroutines the     *)
(* call spawns (response reader, closer, abort watcher) and its            *)
(* environment (the daemon's response bytes, the byte source, the abort    *)
(* channel's owner, I/O failures of the connection).                       *)
(***************************************************************************)
EXTENDS Integers, Sequences, FiniteSets, TLC

(***************************************************************************)
(* Bounds of the model.                                                    *)
(***************************************************************************)
\* most newline-terminated lines in a daemon response
MaxLines == 2
\* most reads of the source that return fewer bytes than fit (none included)
MaxShortReads == 1
\* most values the owner of the abort channel sends on it
MaxAbortSends == 1
\* most writes that fail on a connection that is still open
MaxFailures == 1

(***************************************************************************)
(* Program constants.                                                      *)
(***************************************************************************)
CHUNK_SIZE == 1024

RES_OK == <<"O", "K">>
RES_FOUND == <<"F", "O", "U", "N", "D">>
RES_ERROR == <<"E", "R", "R", "O", "R">>
RES_PARSE_ERROR == <<"PARSE ERROR">>

\* the diagnostic of a line the regular expression rejects, held as one token
NoMatchDescription == <<"Regex had no matches">>

(***************************************************************************)
(* Text helpers.                                                           *)
(***************************************************************************)
Min(a, b) == IF a <= b THEN a ELSE b

Front(s) == SubSeq(s, 1, Len(s) - 1)

EndsWith(s, t) == Len(s) >= Len(t) /\ SubSeq(s, Len(s) - Len(t) + 1, Len(s)) = t

Has(s, c) == \E i \in 1..Len(s) : s[i] = c

\* index of the first c in s at an index above from, 0 when there is none
IndexAfter(s, c, from) ==
    IF \E i \in (from + 1)..Len(s) : s[i] = c
    THEN CHOOSE i \in (from + 1)..Len(s) :
             s[i] = c /\ \A j \in (from + 1)..(i - 1) : s[j] # c
    ELSE 0

Count(s, c, upto) == Cardinality({i \in 1..upto : s[i] = c})

Digits == {"0", "1", "2", "3", "4", "5", "6", "7", "8", "9"}

DigitVal(c) ==
    CASE c = "0" -> 0 [] c = "1" -> 1 [] c = "2" -> 2 [] c = "3" -> 3
      [] c = "4" -> 4 [] c = "5" -> 5 [] c = "6" -> 6 [] c = "7" -> 7
      [] c = "8" -> 8 [] c = "9" -> 9

\* strings.TrimRight(line, " \t\r\n")
TrimCutset == {" ", "\t", "\r", "\n"}

RECURSIVE TrimRight(_)
TrimRight(s) ==
    IF s # <<>> /\ s[Len(s)] \in TrimCutset THEN TrimRight(Front(s)) ELSE s

(***************************************************************************)
(* strconv.Atoi on a string of decimal digits (all that \d+ lets through): *)
(* it fails when the value does not fit a 64-bit int, which is decided     *)
(* digit by digit against 9223372036854775807.                             *)
(***************************************************************************)
MaxInt64Digits ==
    <<"9", "2", "2", "3", "3", "7", "2", "0", "3", "6",
      "8", "5", "4", "7", "7", "5", "8", "0", "7">>

RECURSIVE StripZeros(_)
StripZeros(d) == IF Len(d) > 1 /\ d[1] = "0" THEN StripZeros(Tail(d)) ELSE d

\* d <= e for digit strings of the same length
RECURSIVE DigitsLeq(_, _)
DigitsLeq(d, e) ==
    IF d = <<>> THEN TRUE
    ELSE IF DigitVal(d[1]) < DigitVal(e[1]) THEN TRUE
    ELSE IF DigitVal(d[1]) > DigitVal(e[1]) THEN FALSE
    ELSE DigitsLeq(Tail(d), Tail(e))

AtoiOk(d) ==
    /\ d # <<>>
    /\ \A i \in 1..Len(d) : d[i] \in Digits
    /\ LET z == StripZeros(d)
       IN  \/ Len(z) < Len(MaxInt64Digits)
           \/ Len(z) = Len(MaxInt64Digits) /\ DigitsLeq(z, MaxInt64Digits)

RECURSIVE AtoiVal(_)
AtoiVal(d) == IF d = <<>> THEN 0 ELSE 10 * AtoiVal(Front(d)) + DigitVal(d[Len(d)])

(***************************************************************************)
(* resultRegex:                                                            *)
(*   ^(?P<path>[^:]+): ((?P<desc>[^:]+)(\((?P<virhash>([^:]+)):            *)
(*   (?P<virsize>\d+)\))? )?(?P<status>FOUND|ERROR|OK)$                    *)
(* FindStringSubmatch as a function of the line: the groups of the match   *)
(* the leftmost-first (greedy) search finds, or no match.  The path ends   *)
(* at the first colon; the status is the token the line ends with; what    *)
(* lies between is empty (the optional group is skipped) or is             *)
(* desc [ "(" virhash ":" virsize ")" ] " ", where the greedy desc takes   *)
(* everything up to the last "(" that leaves a virhash.                    *)
(***************************************************************************)
StatusTokens == {RES_FOUND, RES_ERROR, RES_OK}

NoMatch == [matched |-> FALSE, path |-> <<>>, desc |-> <<>>, virhash |-> <<>>,
            virsize |-> <<>>, status |-> <<>>]

Groups(p, d, h, z, s) ==
    [matched |-> TRUE, path |-> p, desc |-> d, virhash |-> h, virsize |-> z,
     status |-> s]

\* desc "(" virhash ":" virsize ")" against text that holds a colon
SignatureGroups(p, D, s) ==
    LET k == IndexAfter(D, ":", 0)
        X == SubSeq(D, 1, k - 1)
        z == SubSeq(D, k + 1, Len(D) - 1)
        opens == {i \in 2..(Len(X) - 1) : X[i] = "("}
    IN  IF /\ D[Len(D)] = ")"
           /\ k < Len(D) - 1
           /\ \A i \in 1..Len(z) : z[i] \in Digits
           /\ opens # {}
        THEN LET q == CHOOSE i \in opens : \A j \in opens : j <= i
             IN  Groups(p, SubSeq(X, 1, q - 1), SubSeq(X, q + 1, Len(X)), z, s)
        ELSE NoMatch

FindStringSubmatch(line) ==
    LET c == IndexAfter(line, ":", 0)
    IN  IF c <= 1 \/ c >= Len(line) THEN NoMatch
        ELSE IF line[c + 1] # " " THEN NoMatch
        ELSE LET p == SubSeq(line, 1, c - 1)
                 R == SubSeq(line, c + 2, Len(line))
             IN  IF ~ \E t \in StatusTokens : EndsWith(R, t) THEN NoMatch
                 ELSE LET s == CHOOSE t \in StatusTokens : EndsWith(R, t)
                          B == SubSeq(R, 1, Len(R) - Len(s))
                      IN  IF B = <<>> THEN Groups(p, <<>>, <<>>, <<>>, s)
                          ELSE IF B[Len(B)] # " " \/ Len(B) < 2 THEN NoMatch
                          ELSE IF ~ Has(Front(B), ":")
                               THEN Groups(p, Front(B), <<>>, <<>>, s)
                          ELSE SignatureGroups(p, Front(B), s)

(***************************************************************************)
(* Variants of parseResult that the parser properties must tell apart      *)
(* from the real one.                                                      *)
(***************************************************************************)
\* the "virhash" case of the switch is missing
parseResultDropsHash(line) ==
    LET m == FindStringSubmatch(line)
    IN  IF ~ m.matched
        THEN [Raw |-> line, Description |-> NoMatchDescription, Path |-> <<>>,
              Hash |-> <<>>, Size |-> 0, Status |-> RES_PARSE_ERROR]
        ELSE [Raw |-> line, Description |-> m.desc, Path |-> m.path,
              Hash |-> <<>>,
              Size |-> IF AtoiOk(m.virsize) THEN AtoiVal(StripZeros(m.virsize))
                       ELSE 0,
              Status |-> m.status]

\* the "virsize" case of the switch is missing
parseResultDropsSize(line) ==
    LET m == FindStringSubmatch(line)
    IN  IF ~ m.matched
        THEN [Raw |-> line, Description |-> NoMatchDescription, Path |-> <<>>,
              Hash |-> <<>>, Size |-> 0, Status |-> RES_PARSE_ERROR]
        ELSE [Raw |-> line, Description |-> m.desc, Path |-> m.path,
              Hash |-> m.virhash, Size |-> 0, Status |-> m.status]

\* a line without a match is reported with the daemon's ERROR status
parseResultNoMatchAsError(line) ==
    LET m == FindStringSubmatch(line)
    IN  IF ~ m.matched
        THEN [Raw |-> line, Description |-> NoMatchDescription, Path |-> <<>>,
              Hash |-> <<>>, Size |-> 0, Status |-> RES_ERROR]
        ELSE [Raw |-> line, Description |-> m.desc, Path |-> m.path,
              Hash |-> m.virhash,
              Size |-> IF AtoiOk(m.virsize) THEN AtoiVal(StripZeros(m.virsize))
                       ELSE 0,
              Status |-> m.status]

(***************************************************************************)
(* parseResult: one line in, one ScanResult out.  The status group can     *)
(* only hold one of the three tokens, so the switch's default branch       *)
(* ("Invalid status field") is never taken.                                *)
(***************************************************************************)
parseResult(line) ==
    LET m == FindStringSubmatch(line)
    IN  IF ~ m.matched
        THEN [Raw |-> line, Description |-> NoMatchDescription, Path |-> <<>>,
              Hash |-> <<>>, Size |-> 0, Status |-> RES_PARSE_ERROR]
        ELSE [Raw |-> line, Description |-> m.desc, Path |-> m.path,
              Hash |-> m.virhash,
              Size |-> IF AtoiOk(m.virsize) THEN AtoiVal(StripZeros(m.virsize))
                       ELSE 0,
              Status |-> m.status]

(***************************************************************************)
(* Commands and wire framing.                                              *)
(***************************************************************************)
Ops == {"Ping", "Reload", "Shutdown", "Stats", "Version", "ScanStream"}

\* the operations built on simpleCommand
SimpleOps == Ops \ {"ScanStream"}

PONG == <<"P", "O", "N", "G">>
RELOADING == <<"R", "E", "L", "O", "A", "D", "I", "N", "G">>

Command(o) ==
    CASE o = "Ping" -> <<"P", "I", "N", "G">>
      [] o = "Reload" -> <<"R", "E", "L", "O", "A", "D">>
      [] o = "Shutdown" -> <<"S", "H", "U", "T", "D", "O", "W", "N">>
      [] o = "Stats" -> <<"S", "T", "A", "T", "S">>
      [] o = "Version" -> <<"V", "E", "R", "S", "I", "O", "N">>
      [] o = "ScanStream" -> <<"I", "N", "S", "T", "R", "E", "A", "M">>

\* the operations that take a path
ScanOps == {"ScanFile", "RawScanFile", "MultiScanFile", "ContScanFile",
            "AllMatchScanFile"}

\* the keyword each of them puts before the path
ScanKeyword(o) ==
    CASE o = "ScanFile" -> <<"S", "C", "A", "N">>
      [] o = "RawScanFile" -> <<"R", "A", "W", "S", "C", "A", "N">>
      [] o = "MultiScanFile" -> <<"M", "U", "L", "T", "I", "S", "C", "A", "N">>
      [] o = "ContScanFile" -> <<"C", "O", "N", "T", "S", "C", "A", "N">>
      [] o = "AllMatchScanFile" ->
            <<"A", "L", "L", "M", "A", "T", "C", "H", "S", "C", "A", "N">>

\* fmt.Sprintf("SCAN %s", path) and the like: the path as it was handed over
ScanCommand(o, p) == ScanKeyword(o) \o <<" ">> \o p

\* the paths the scan operations are called with; the other operations have
\* none
Paths ==
    { <<>>, <<"/", "f">>,
      <<"/", "a", " ", "b">>,
      <<"/", "f", "\n", "S", "H", "U", "T", "D", "O", "W", "N">>,
      <<"/", "f", "\n">>,
      <<"\n", "/", "f">> }

\* the command text of each operation that goes through simpleCommand,
\* worked out once
CommandTexts ==
    [o \in SimpleOps \cup ScanOps |->
        [p \in Paths |-> IF o \in ScanOps THEN ScanCommand(o, p) ELSE Command(o)]]

\* the acknowledgement Ping and Reload compare the first record's Raw with
Expected(o) == IF o = "Ping" THEN PONG ELSE RELOADING

\* sendCommand: fmt.Sprintf("n%s\n", command)
\* the command and its newline without the marker byte
CommandFrameUnmarked(cmd) == cmd \o <<"\n">>

CommandFrame(cmd) == <<"n">> \o cmd \o <<"\n">>

\* the four bytes of the length, least significant first
LenPrefixLittleEndian(n) ==
    <<n % 256, (n \div 256) % 256, (n \div 65536) % 256, (n \div 16777216) % 256>>

\* sendChunk: the four bytes buf[0..3] of the length, most significant first
LenPrefix(n) ==
    <<(n \div 16777216) % 256, (n \div 65536) % 256, (n \div 256) % 256, n % 256>>

\* sendEOF: []byte{0, 0, 0, 0}
EOFMarker == <<0, 0, 0, 0>>

(***************************************************************************)
(* url.Parse, as far as newConnection depends on it: whether it fails, and *)
(* the Scheme, Host and Path of the URL it returns.  Addresses are taken   *)
(* without user information ("@") and without bracketed hosts.             *)
(***************************************************************************)
LowerLetters == <<"a", "b", "c", "d", "e", "f", "g", "h", "i", "j", "k", "l", "m",
                  "n", "o", "p", "q", "r", "s", "t", "u", "v", "w", "x", "y", "z">>
UpperLetters == <<"A", "B", "C", "D", "E", "F", "G", "H", "I", "J", "K", "L", "M",
                  "N", "O", "P", "Q", "R", "S", "T", "U", "V", "W", "X", "Y", "Z">>
Letters == {LowerLetters[i] : i \in 1..26} \cup {UpperLetters[i] : i \in 1..26}

\* strings.ToLower
ToLowerChar(c) ==
    IF \E i \in 1..26 : UpperLetters[i] = c
    THEN LowerLetters[CHOOSE i \in 1..26 : UpperLetters[i] = c]
    ELSE c
ToLower(s) == [i \in 1..Len(s) |-> ToLowerChar(s[i])]

\* bytes below 0x20, of which these are drawn
CTLBytes == {"\t", "\r", "\n"}
stringContainsCTLByte(s) == \E i \in 1..Len(s) : s[i] \in CTLBytes

\* strings.Cut: the text before the first sep, all of it when there is none
CutBefore(s, sep) ==
    LET i == IndexAfter(s, sep, 0) IN IF i = 0 THEN s ELSE SubSeq(s, 1, i - 1)

HasPrefix(s, t) == Len(s) >= Len(t) /\ SubSeq(s, 1, Len(t)) = t

\* index of the first byte of rawURL that ends getScheme's scan, 0 when the
\* scan runs to the end
SchemeStop(rawURL) ==
    LET stops == {i \in 1..Len(rawURL) :
                     \/ rawURL[i] \notin Letters \cup Digits \cup {"+", "-", "."}
                     \/ i = 1 /\ rawURL[i] \notin Letters}
    IN  IF stops = {} THEN 0 ELSE CHOOSE i \in stops : \A j \in stops : i <= j

getScheme(rawURL) ==
    LET i == SchemeStop(rawURL)
    IN  IF i = 0 \/ rawURL[i] # ":"
        THEN [err |-> FALSE, scheme |-> <<>>, path |-> rawURL]
        ELSE IF i = 1
        THEN [err |-> TRUE, scheme |-> <<>>, path |-> <<>>]
        ELSE [err |-> FALSE, scheme |-> SubSeq(rawURL, 1, i - 1),
              path |-> SubSeq(rawURL, i + 1, Len(rawURL))]

HexDigits == Digits \cup {"a", "b", "c", "d", "e", "f", "A", "B", "C", "D", "E", "F"}

\* the bytes that the escapes drawn stand for
Unhex(a, b) ==
    IF <<a, b>> = <<"4", "1">> THEN "A"
    ELSE IF <<a, b>> = <<"2", "0">> THEN " "
    ELSE "/"

\* unescape finds a "%" that two hexadecimal digits do not follow
BadEscape(s) ==
    \E i \in 1..Len(s) :
        /\ s[i] = "%"
        /\ \/ i + 2 > Len(s)
           \/ s[i + 1] \notin HexDigits
           \/ s[i + 2] \notin HexDigits

RECURSIVE unescape(_)
unescape(s) ==
    IF s = <<>> THEN <<>>
    ELSE IF s[1] = "%"
    THEN <<Unhex(s[2], s[3])>> \o unescape(SubSeq(s, 4, Len(s)))
    ELSE <<s[1]>> \o unescape(Tail(s))

\* validOptionalPort on the text from the last colon of the host
validOptionalPort(port) ==
    \/ port = <<>>
    \/ port[1] = ":" /\ \A i \in 2..Len(port) : port[i] \in Digits

LastIndex(s, c) ==
    IF Has(s, c)
    THEN CHOOSE i \in 1..Len(s) : s[i] = c /\ \A j \in (i + 1)..Len(s) : s[j] # c
    ELSE 0

\* bytes that unescape refuses in a host name
HostRefused == {" ", "{", "}", "|"}

parseHostFails(host) ==
    \/ LET i == LastIndex(host, ":")
       IN  i # 0 /\ ~ validOptionalPort(SubSeq(host, i, Len(host)))
    \/ BadEscape(host)
    \/ \E i \in 1..Len(host) : host[i] \in HostRefused

ParseError == [err |-> TRUE, Scheme |-> <<>>, Host |-> <<>>, Path |-> <<>>]

Parse(rawURL) ==
    LET u == CutBefore(rawURL, "#")
        g == getScheme(u)
        rest == CutBefore(g.path, "?")
        authority == CutBefore(SubSeq(rest, 3, Len(rest)), "/")
        hasAuthority == /\ HasPrefix(rest, <<"/", "/">>)
                        /\ g.scheme # <<>> \/ ~ HasPrefix(rest, <<"/", "/", "/">>)
        escaped == IF hasAuthority
                THEN SubSeq(rest, 3 + Len(authority), Len(rest))
                ELSE rest
    IN  IF stringContainsCTLByte(u) \/ g.err THEN ParseError
        ELSE IF u = <<"*">>
        THEN [err |-> FALSE, Scheme |-> <<>>, Host |-> <<>>, Path |-> u]
        ELSE IF ~ HasPrefix(rest, <<"/">>) /\ g.scheme # <<>>
        THEN [err |-> FALSE, Scheme |-> ToLower(g.scheme), Host |-> <<>>,
              Path |-> <<>>]
        ELSE IF ~ HasPrefix(rest, <<"/">>) /\ Has(CutBefore(rest, "/"), ":")
        THEN ParseError
        ELSE IF hasAuthority /\ parseHostFails(authority) THEN ParseError
        ELSE IF BadEscape(escaped) THEN ParseError
        ELSE [err |-> FALSE, Scheme |-> ToLower(g.scheme),
              Host |-> IF hasAuthority THEN unescape(authority) ELSE <<>>,
              Path |-> unescape(escaped)]

\* the dial that newConnection makes for an address that parses
NoDial == [network |-> "none", target |-> <<>>]

Transport(a) ==
    LET u == Parse(a)
    IN  IF u.Scheme = <<"t", "c", "p">> THEN [network |-> "tcp", target |-> u.Host]
        ELSE IF u.Scheme = <<"u", "n", "i", "x">>
        THEN [network |-> "unix", target |-> u.Path]
        ELSE [network |-> "unix", target |-> a]

\* net.Dial and net.DialTimeout: no socket has the empty path and a TCP
\* address needs a port; any other dial succeeds or fails
DialOutcomes(d) ==
    IF d.target = <<>> \/ (d.network = "tcp" /\ ~ Has(d.target, ":"))
    THEN {FALSE}
    ELSE BOOLEAN

\* the address of the example program, shortened
SocketPath == <<"/", "t", "m", "p", "/", "s">>

Addresses ==
    { SocketPath, <<>>, <<"s">>,
      <<"t", "c", "p", ":", "/", "/", "h", ":", "3", "3">>, <<"T", "C", "P", ":", "/", "/", "h", ":", "3", "3">>,
      <<"t", "c", "p", ":", "/", "/", "h">>, <<"t", "c", "p", ":", "/", "/", "h", ":", "x">>,
      <<"t", "c", "p", ":", "/", "/", "h", ":", "3", "3", "/", "p">>,
      <<"t", "c", "p", ":", "h", ":", "3", "3">>,
      <<"u", "n", "i", "x", ":", "/", "/", "/", "s">>, <<"u", "n", "i", "x", ":", "s">>,
      <<"u", "n", "i", "x", ":", "/", "/", "h", "/", "s">>,
      <<"u", "n", "i", "x", ":", "/", "/", "/", "a", "%", "4", "1">>,
      <<"u", "n", "i", "x", ":", "/", "/", "/", "s", "?", "q">>,
      <<"u", "n", "i", "x", ":", "/", "/", "/", "s", "#", "f">>,
      <<"h", "t", "t", "p", ":", "/", "/", "h", "/", "s">>,
      <<"/", "a", "%", "4", "1">>, <<"/", "a", "%", "/", "s">>,
      <<"/", "a", "%", "4">>, <<"/", "s", "\t">>, <<":", "s">>,
      <<"1", ":", "s">>, <<".", "/", "1", ":", "s">>,
      <<"/", "/", "h", "/", "s">>, <<"/", "/", "/", "s">> }

\* url.Parse's verdict and newConnection's dial for each address, worked out
\* once
Resolved == [a \in Addresses |-> [err |-> Parse(a).err, dial |-> Transport(a)]]

(***************************************************************************)
(* The inputs of one call.                                                 *)
(***************************************************************************)
\* the lines a daemon response to operation o is made of, each with its line
\* ending: an acknowledgement (the one Reload expects, or the one Ping
\* expects), bare and with trailing blanks, a result line and a malformed line
WireLines(o) ==
    LET ack == IF o = "Reload" THEN RELOADING ELSE PONG
    IN  { ack \o <<"\n">>,
          ack \o <<" ", "\r", "\n">>,
          <<"f", ":", " ", "O", "K", "\n">>,
          <<"x", "\n">> }

\* what may follow the last newline before the daemon closes
Tails == { <<>>, <<"f", ":", " ", "O", "K">> }

RECURSIVE Streams(_, _)
Streams(o, n) ==
    IF n = 0 THEN { <<>> }
    ELSE Streams(o, n - 1) \cup
         { s \o l : s \in { t \in Streams(o, n - 1) : Count(t, "\n", Len(t)) = n - 1 },
                    l \in WireLines(o) }

Responses(o) == { s \o t : s \in Streams(o, MaxLines), t \in Tails }

\* lengths of the byte source handed to ScanStream
SourceLens == {0, 452, 1024, 2500}

\* sizes of a read that returns fewer bytes than fit
ShortSizes == {200}

\* the responses tried with ScanStream
StreamResponses == { <<>>, <<"f", ":", " ", "O", "K", "\n">> }

VARIABLES
    op,         \* the facade operation called
    pc,         \* the caller's position in it
    ret,        \* what the call returned: "none" while it runs, "nil", "err",
                \* "ch" (the result channel and a nil error), "panic"
    conn,       \* the connection: "none", "open", "closed" (Close was called)
    failures,   \* writes that failed on the open connection so far
    writes,     \* every Write on the connection, in order, with its outcome
    resp,       \* the bytes the daemon sends before it closes its side
    bufEnd,     \* how many of them the bufio.Reader has fetched
    rpos,       \* how many of them ReadString has returned
    rpc,        \* the reader goroutine's position
    rend,       \* what ended its loop: "none", "eof", "error"
    cur,        \* the record it is sending on the channel
    chClosed,   \* close(ch) was called
    wgDone,     \* wg.Done() was called
    cpc,        \* the position of the goroutine that waits and closes
    delivered,  \* the records received from the channel, in order
    sawClose,   \* a receive found the channel closed
    srcLen,     \* the length of the source
    srcOff,     \* how many of its bytes have been read
    shortReads, \* reads that returned fewer bytes than fit so far
    nr,         \* Read's byte count, in the relay loop
    rerr,       \* Read returned an error (io.EOF included)
    abort,      \* the abort channel: "nil", "open", "closed"
    abortSent,  \* values sent on it and received by the watcher
    wpc,        \* the abort watcher goroutine's position
    address,    \* the address the Clamd value was made with
    dialed,     \* the dial newConnection made: network and target
    path        \* the path handed to a scan operation

vars == <<op, pc, ret, conn, failures, writes, resp, bufEnd, rpos, rpc, rend,
          cur, chClosed, wgDone, cpc, delivered, sawClose, srcLen, srcOff,
          shortReads, nr, rerr, abort, abortSent, wpc,
          address, dialed, path>>

callerVars == <<op, pc, ret, nr, rerr>>
connVars == <<conn, failures, writes>>
readerVars == <<resp, bufEnd, rpos, rpc, rend, cur, chClosed, wgDone>>
consumerVars == <<delivered, sawClose>>
sourceVars == <<srcLen, srcOff, shortReads>>
abortVars == <<abort, abortSent, wpc>>
resolverVars == <<address, dialed>>

NoRecord == [Raw |-> <<>>, Description |-> <<>>, Path |-> <<>>, Hash |-> <<>>,
             Size |-> 0, Status |-> <<>>]

\* the state a call starts in, whatever its inputs
Fresh ==
    /\ pc = "start" /\ ret = "none"
    /\ conn = "none" /\ failures = 0 /\ writes = <<>>
    /\ bufEnd = 0 /\ rpos = 0 /\ rpc = "idle" /\ rend = "none" /\ cur = NoRecord
    /\ chClosed = FALSE /\ wgDone = FALSE /\ cpc = "idle"
    /\ delivered = <<>> /\ sawClose = FALSE
    /\ srcOff = 0 /\ shortReads = 0 /\ nr = 0 /\ rerr = FALSE
    /\ abortSent = 0 /\ wpc = "idle"
    /\ dialed = NoDial

Init ==
    /\ Fresh
    /\ op \in Ops
    /\ address = SocketPath /\ path = <<>>
    /\ IF op = "ScanStream"
       THEN resp \in StreamResponses /\ srcLen \in SourceLens
            /\ abort \in {"nil", "open"}
       ELSE resp \in Responses(op) /\ srcLen = 0 /\ abort = "nil"

(***************************************************************************)
(* net.Conn.Write.  A write on a connection that was closed fails; a write *)
(* on an open connection succeeds or fails, and a failure says nothing     *)
(* about the next write.                                                   *)
(***************************************************************************)
WriteOutcomes ==
    IF conn # "open" THEN {"fail"}
    ELSE {"ok"} \cup (IF failures < MaxFailures THEN {"fail"} ELSE {})

Frame(f, text, hdr, off, len) ==
    [f |-> f, text |-> text, hdr |-> hdr, off |-> off, len |-> len, ok |-> TRUE]

Write(frame, out) ==
    /\ writes' = Append(writes, [frame EXCEPT !.ok = (out = "ok")])
    /\ failures' = IF conn = "open" /\ out # "ok" THEN failures + 1 ELSE failures
    /\ UNCHANGED conn

\* the frames that reached the daemon
Wire == SelectSeq(writes, LAMBDA w : w.ok)

(***************************************************************************)
(* newConnection, and in ScanStream the start of the goroutine that        *)
(* watches the abort channel.                                              *)
(***************************************************************************)
Dial ==
    /\ pc = "start"
    /\ IF Resolved[address].err
       THEN /\ pc' = "returned"
            /\ ret' = "err"
            /\ UNCHANGED <<conn, wpc, dialed>>
       ELSE /\ dialed' = Resolved[address].dial
            /\ \E ok \in DialOutcomes(Resolved[address].dial) :
                  IF ok
                  THEN /\ conn' = "open"
                       /\ pc' = "sendCommand"
                       /\ wpc' = IF op = "ScanStream" THEN "recv" ELSE wpc
                       /\ UNCHANGED ret
                  ELSE /\ pc' = "returned"
                       /\ ret' = "err"
                       /\ UNCHANGED <<conn, wpc>>
    /\ UNCHANGED <<op, nr, rerr, failures, writes, readerVars, cpc,
                   consumerVars, sourceVars, abort, abortSent, address,
                   path>>

(***************************************************************************)
(* simpleCommand: conn.sendCommand(command), returning its error.          *)
(***************************************************************************)
SimpleSendCommand ==
    /\ op \in SimpleOps \cup ScanOps
    /\ pc = "sendCommand"
    /\ \E out \in WriteOutcomes :
          /\ Write(Frame("sendCommand", CommandFrame(CommandTexts[op][path]),
                         <<>>, 0, 0), out)
          /\ IF out = "ok"
             THEN pc' = "readResponse" /\ UNCHANGED ret
             ELSE pc' = "returned" /\ ret' = "err"
    /\ UNCHANGED <<op, nr, rerr, readerVars, cpc, consumerVars, sourceVars,
                   abortVars>>
    /\ UNCHANGED <<resolverVars, path>>

(***************************************************************************)
(* conn.readResponse() and the goroutine that waits for the WaitGroup and  *)
(* closes the connection, in simpleCommand and at the end of ScanStream;   *)
(* then the operation goes on with the channel.                            *)
(***************************************************************************)
ReadResponse ==
    /\ pc = "readResponse"
    /\ rpc' = "read"
    /\ cpc' = "wait"
    /\ IF op \in {"Ping", "Reload", "Stats"}
       THEN pc' = "recv" /\ UNCHANGED ret
       ELSE /\ pc' = "returned"
            /\ ret' = IF op = "Shutdown" THEN "nil" ELSE "ch"
    /\ UNCHANGED <<op, nr, rerr, connVars, resp, bufEnd, rpos, rend, cur, chClosed,
                   wgDone, consumerVars, sourceVars, abortVars>>
    /\ UNCHANGED <<resolverVars, path>>

(***************************************************************************)
(* The goroutine of readResponse.  reader.ReadString('\n') returns the     *)
(* next line when the bufio.Reader holds one; otherwise it reads from the  *)
(* connection, which delivers more bytes, reports io.EOF once the daemon   *)
(* has closed and everything was fetched, or fails.  Whatever was read     *)
(* without a newline is dropped with the error.                            *)
(***************************************************************************)
\* index of the newline that ends the next buffered line, 0 when none is buffered
NextNewline ==
    LET i == IndexAfter(resp, "\n", rpos) IN IF i > 0 /\ i <= bufEnd THEN i ELSE 0

\* where a read of the connection may leave the buffer: after the next
\* newline not yet fetched, or after everything the daemon sent
FetchTo ==
    LET i == IndexAfter(resp, "\n", bufEnd)
    IN  (IF i > 0 THEN {i} ELSE {}) \cup {Len(resp)}

\* ReaderLine with a loop that gives up on a line it cannot parse
ReaderLineStopsOnParseError ==
    /\ rpc = "read"
    /\ NextNewline > 0
    /\ cur' = parseResult(TrimRight(SubSeq(resp, rpos + 1, NextNewline)))
    /\ rpos' = NextNewline
    /\ rpc' = IF cur'.Status = RES_PARSE_ERROR THEN "close" ELSE "send"
    /\ UNCHANGED <<callerVars, connVars, resp, bufEnd, rend, chClosed, wgDone,
                   cpc, consumerVars, sourceVars, abortVars>>
    /\ UNCHANGED <<resolverVars, path>>

ReaderLine ==
    /\ rpc = "read"
    /\ NextNewline > 0
    /\ cur' = parseResult(TrimRight(SubSeq(resp, rpos + 1, NextNewline)))
    /\ rpos' = NextNewline
    /\ rpc' = "send"
    /\ UNCHANGED <<callerVars, connVars, resp, bufEnd, rend, chClosed, wgDone,
                   cpc, consumerVars, sourceVars, abortVars>>
    /\ UNCHANGED <<resolverVars, path>>

ReaderFill ==
    /\ rpc = "read"
    /\ NextNewline = 0
    /\ conn = "open"
    /\ bufEnd < Len(resp)
    /\ \E e \in FetchTo : bufEnd' = e
    /\ UNCHANGED <<callerVars, connVars, resp, rpos, rpc, rend, cur, chClosed,
                   wgDone, cpc, consumerVars, sourceVars, abortVars>>
    /\ UNCHANGED <<resolverVars, path>>

\* err == io.EOF: return
ReaderEOF ==
    /\ rpc = "read"
    /\ NextNewline = 0
    /\ conn = "open"
    /\ bufEnd = Len(resp)
    /\ rend' = "eof"
    /\ rpc' = "close"
    /\ UNCHANGED <<callerVars, connVars, resp, bufEnd, rpos, cur, chClosed,
                   wgDone, cpc, consumerVars, sourceVars, abortVars>>
    /\ UNCHANGED <<resolverVars, path>>

\* ReaderError with a return that skips the deferred close(ch) and wg.Done()
ReaderErrorWithoutDefer ==
    /\ rpc = "read"
    /\ NextNewline = 0
    /\ rend' = "error"
    /\ rpc' = "done"
    /\ UNCHANGED <<callerVars, connVars, resp, bufEnd, rpos, cur, chClosed,
                   wgDone, cpc, consumerVars, sourceVars, abortVars>>
    /\ UNCHANGED <<resolverVars, path>>

\* err != nil: return.  The read fails on a connection that was closed, and
\* may fail on an open one (the peer resets it).
ReaderError ==
    /\ rpc = "read"
    /\ NextNewline = 0
    /\ rend' = "error"
    /\ rpc' = "close"
    /\ UNCHANGED <<callerVars, connVars, resp, bufEnd, rpos, cur, chClosed,
                   wgDone, cpc, consumerVars, sourceVars, abortVars>>
    /\ UNCHANGED <<resolverVars, path>>

\* the deferred function: close(ch) ...
ReaderCloseCh ==
    /\ rpc = "close"
    /\ chClosed' = TRUE
    /\ rpc' = "done_wg"
    /\ UNCHANGED <<callerVars, connVars, resp, bufEnd, rpos, rend, cur, wgDone,
                   cpc, consumerVars, sourceVars, abortVars>>
    /\ UNCHANGED <<resolverVars, path>>

\* ... then wg.Done()
ReaderWgDone ==
    /\ rpc = "done_wg"
    /\ wgDone' = TRUE
    /\ rpc' = "done"
    /\ UNCHANGED <<callerVars, connVars, resp, bufEnd, rpos, rend, cur, chClosed,
                   cpc, consumerVars, sourceVars, abortVars>>
    /\ UNCHANGED <<resolverVars, path>>

(***************************************************************************)
(* The channel is unbuffered: `ch <- parseResult(line)` completes together *)
(* with a receive.  Handover is the reader's half of that step.            *)
(***************************************************************************)
\* Handover with the records coming out last first
HandoverReordered ==
    /\ rpc = "send"
    /\ delivered' = <<cur>> \o delivered
    /\ rpc' = "read"
    /\ UNCHANGED <<connVars, resp, bufEnd, rpos, rend, cur, chClosed, wgDone, cpc,
                   sawClose, sourceVars, abortVars>>
    /\ UNCHANGED <<resolverVars, path>>

Handover ==
    /\ rpc = "send"
    /\ delivered' = Append(delivered, cur)
    /\ rpc' = "read"
    /\ UNCHANGED <<connVars, resp, bufEnd, rpos, rend, cur, chClosed, wgDone, cpc,
                   sawClose, sourceVars, abortVars>>
    /\ UNCHANGED <<resolverVars, path>>

\* Ping and Reload: s := <-ch; switch s.Raw
AckRecv ==
    /\ op \in {"Ping", "Reload"}
    /\ pc = "recv"
    /\ Handover
    /\ pc' = "returned"
    /\ ret' = IF cur.Raw = Expected(op) THEN "nil" ELSE "err"
    /\ UNCHANGED <<op, nr, rerr>>
    /\ UNCHANGED <<resolverVars, path>>

\* the receive on the closed channel yields a nil *ScanResult, and s.Raw
\* dereferences it
AckRecvClosed ==
    /\ op \in {"Ping", "Reload"}
    /\ pc = "recv"
    /\ chClosed
    /\ sawClose' = TRUE
    /\ pc' = "returned"
    /\ ret' = "panic"
    /\ UNCHANGED <<op, nr, rerr, connVars, readerVars, cpc, delivered,
                   sourceVars, abortVars>>
    /\ UNCHANGED <<resolverVars, path>>

(***************************************************************************)
(* Stats: the record built from the results received, in the order of the  *)
(* else-if chain.  s.Raw[6:] is a slice past the end when Raw is "POOLS"   *)
(* alone, and the call panics.                                             *)
(***************************************************************************)
KwPools == <<"P", "O", "O", "L", "S">>
KwState == <<"S", "T", "A", "T", "E">>
KwThreads == <<"T", "H", "R", "E", "A", "D", "S">>
KwQueue == <<"Q", "U", "E", "U", "E">>
KwMemstats == <<"M", "E", "M", "S", "T", "A", "T", "S">>
KwEnd == <<"E", "N", "D">>

\* strings.Trim(s, " ")
RECURSIVE TrimSpaces(_)
TrimSpaces(s) ==
    IF s = <<>> THEN s
    ELSE IF s[1] = " " THEN TrimSpaces(Tail(s))
    ELSE IF s[Len(s)] = " " THEN TrimSpaces(Front(s))
    ELSE s

NoStats == [Pools |-> <<>>, State |-> <<>>, Threads |-> <<>>, Queue |-> <<>>,
            Memstats |-> <<>>]

SliceFaults(raw) == HasPrefix(raw, KwPools) /\ Len(raw) < 6

StatsStep(stats, raw) ==
    IF HasPrefix(raw, KwPools)
    THEN [stats EXCEPT !.Pools = TrimSpaces(SubSeq(raw, 7, Len(raw)))]
    ELSE IF HasPrefix(raw, KwState) THEN [stats EXCEPT !.State = raw]
    ELSE IF HasPrefix(raw, KwThreads) THEN [stats EXCEPT !.Threads = raw]
    ELSE IF HasPrefix(raw, KwQueue) THEN [stats EXCEPT !.Queue = raw]
    ELSE IF HasPrefix(raw, KwMemstats) THEN [stats EXCEPT !.Memstats = raw]
    ELSE stats

\* the Stats value after the records rs
RECURSIVE StatsRecord(_)
StatsRecord(rs) ==
    IF rs = <<>> THEN NoStats
    ELSE StatsStep(StatsRecord(Front(rs)), rs[Len(rs)].Raw)

\* Stats: for s := range ch
StatsRecv ==
    /\ op = "Stats"
    /\ pc = "recv"
    /\ Handover
    /\ IF SliceFaults(cur.Raw)
       THEN pc' = "returned" /\ ret' = "panic"
       ELSE UNCHANGED <<pc, ret>>
    /\ UNCHANGED <<op, nr, rerr>>
    /\ UNCHANGED <<resolverVars, path>>

StatsRecvClosed ==
    /\ op = "Stats"
    /\ pc = "recv"
    /\ chClosed
    /\ sawClose' = TRUE
    /\ pc' = "returned"
    /\ ret' = "nil"
    /\ UNCHANGED <<op, nr, rerr, connVars, readerVars, cpc, delivered,
                   sourceVars, abortVars>>
    /\ UNCHANGED <<resolverVars, path>>

\* the caller that was handed the channel receives from it
ConsumerRecv ==
    /\ ret = "ch"
    /\ Handover
    /\ UNCHANGED callerVars
    /\ UNCHANGED <<resolverVars, path>>

ConsumerRecvClosed ==
    /\ ret = "ch"
    /\ chClosed
    /\ ~sawClose
    /\ sawClose' = TRUE
    /\ UNCHANGED <<callerVars, connVars, readerVars, cpc, delivered,
                   sourceVars, abortVars>>
    /\ UNCHANGED <<resolverVars, path>>

(***************************************************************************)
(* go func() { wg.Wait(); conn.Close() }()                                 *)
(***************************************************************************)
\* CloserWait without wg.Wait()
CloserDoesNotWait ==
    /\ cpc = "wait"
    /\ cpc' = "close"
    /\ UNCHANGED <<callerVars, connVars, readerVars, consumerVars, sourceVars,
                   abortVars>>
    /\ UNCHANGED <<resolverVars, path>>

CloserWait ==
    /\ cpc = "wait"
    /\ wgDone
    /\ cpc' = "close"
    /\ UNCHANGED <<callerVars, connVars, readerVars, consumerVars, sourceVars,
                   abortVars>>
    /\ UNCHANGED <<resolverVars, path>>

CloserClose ==
    /\ cpc = "close"
    /\ conn' = "closed"
    /\ cpc' = "done"
    /\ UNCHANGED <<callerVars, failures, writes, readerVars, consumerVars,
                   sourceVars, abortVars>>
    /\ UNCHANGED <<resolverVars, path>>

(***************************************************************************)
(* ScanStream.  The abort watcher:                                         *)
(*   for { _, allowRunning := <-abort; if !allowRunning { break } }        *)
(*   conn.Close()                                                          *)
(* The second result of the receive is false only once the channel is      *)
(* closed; a value sent on it is received with true.  A nil channel never  *)
(* delivers.                                                               *)
(***************************************************************************)
\* the owner of the abort channel sends a value, which the watcher receives
WatcherRecvValue ==
    /\ wpc = "recv"
    /\ abort = "open"
    /\ abortSent < MaxAbortSends
    /\ abortSent' = abortSent + 1
    /\ wpc' = "recv"
    /\ UNCHANGED <<callerVars, connVars, readerVars, cpc, consumerVars,
                   sourceVars, abort>>
    /\ UNCHANGED <<resolverVars, path>>

WatcherRecvClosed ==
    /\ wpc = "recv"
    /\ abort = "closed"
    /\ wpc' = "close"
    /\ UNCHANGED <<callerVars, connVars, readerVars, cpc, consumerVars,
                   sourceVars, abort, abortSent>>
    /\ UNCHANGED <<resolverVars, path>>

WatcherClose ==
    /\ wpc = "close"
    /\ conn' = "closed"
    /\ wpc' = "done"
    /\ UNCHANGED <<callerVars, failures, writes, readerVars, cpc,
                   consumerVars, sourceVars, abort, abortSent>>
    /\ UNCHANGED <<resolverVars, path>>

\* the owner of the abort channel closes it
AbortClose ==
    /\ abort = "open"
    /\ abort' = "closed"
    /\ UNCHANGED <<callerVars, connVars, readerVars, cpc, consumerVars,
                   sourceVars, abortSent, wpc>>
    /\ UNCHANGED <<resolverVars, path>>

\* conn.sendCommand("INSTREAM"): the error is dropped
StreamSendCommand ==
    /\ op = "ScanStream"
    /\ pc = "sendCommand"
    /\ \E out \in WriteOutcomes :
          Write(Frame("sendCommand", CommandFrame(Command(op)), <<>>, 0, 0), out)
    /\ pc' = "relay"
    /\ UNCHANGED <<op, ret, nr, rerr, readerVars, cpc, consumerVars, sourceVars,
                   abortVars>>
    /\ UNCHANGED <<resolverVars, path>>

(***************************************************************************)
(* r.Read(buf) with a buffer of CHUNK_SIZE bytes: the pairs (n, err) the   *)
(* source may return with rem bytes left.  An error of the source ends the *)
(* relay like io.EOF does, so it is modelled as the end of the source.     *)
(***************************************************************************)
ReadResults(rem) ==
    LET fit == Min(CHUNK_SIZE, rem)
        short == IF shortReads < MaxShortReads
                 THEN {0} \cup {z \in ShortSizes : z < fit} ELSE {}
    IN  IF rem = 0 THEN {<<0, TRUE>>} \cup {<<z, FALSE>> : z \in short}
        ELSE {<<fit, FALSE>>} \cup (IF fit = rem THEN {<<fit, TRUE>>} ELSE {})
             \cup {<<z, FALSE>> : z \in short}

\* RelayRead with the loop left on an error before the bytes read are sent
RelayReadBreaksFirst ==
    /\ op = "ScanStream"
    /\ pc = "relay"
    /\ \E r \in ReadResults(srcLen - srcOff) :
          /\ nr' = r[1]
          /\ rerr' = r[2]
          /\ srcOff' = srcOff + r[1]
          /\ shortReads' = IF r[1] < Min(CHUNK_SIZE, srcLen - srcOff) \/ r = <<0, FALSE>>
                           THEN shortReads + 1 ELSE shortReads
          /\ pc' = IF r[2] THEN "sendEOF"
                   ELSE IF r[1] > 0 THEN "chunk_len" ELSE "relay"
    /\ UNCHANGED <<op, ret, connVars, readerVars, cpc, consumerVars, srcLen,
                   abortVars>>
    /\ UNCHANGED <<resolverVars, path>>

\* RelayRead without the test nr > 0
RelayReadSendsEmpty ==
    /\ op = "ScanStream"
    /\ pc = "relay"
    /\ \E r \in ReadResults(srcLen - srcOff) :
          /\ nr' = r[1]
          /\ rerr' = r[2]
          /\ srcOff' = srcOff + r[1]
          /\ shortReads' = IF r[1] < Min(CHUNK_SIZE, srcLen - srcOff) \/ r = <<0, FALSE>>
                           THEN shortReads + 1 ELSE shortReads
          /\ pc' = "chunk_len"
    /\ UNCHANGED <<op, ret, connVars, readerVars, cpc, consumerVars, srcLen,
                   abortVars>>
    /\ UNCHANGED <<resolverVars, path>>

\* nr, err := r.Read(buf), and the branch on them
RelayRead ==
    /\ op = "ScanStream"
    /\ pc = "relay"
    /\ \E r \in ReadResults(srcLen - srcOff) :
          /\ nr' = r[1]
          /\ rerr' = r[2]
          /\ srcOff' = srcOff + r[1]
          /\ shortReads' = IF r[1] < Min(CHUNK_SIZE, srcLen - srcOff) \/ r = <<0, FALSE>>
                           THEN shortReads + 1 ELSE shortReads
          /\ pc' = IF r[1] > 0 THEN "chunk_len"
                   ELSE IF r[2] THEN "sendEOF" ELSE "relay"
    /\ UNCHANGED <<op, ret, connVars, readerVars, cpc, consumerVars, srcLen,
                   abortVars>>
    /\ UNCHANGED <<resolverVars, path>>

\* sendChunk: conn.Write(b), the length prefix; the result is dropped
SendChunkLen ==
    /\ pc = "chunk_len"
    /\ \E out \in WriteOutcomes :
          Write(Frame("sendChunk.len", <<>>, LenPrefix(nr), 0, 0), out)
    /\ pc' = "chunk_data"
    /\ UNCHANGED <<op, ret, nr, rerr, readerVars, cpc, consumerVars, sourceVars,
                   abortVars>>
    /\ UNCHANGED <<resolverVars, path>>

\* sendChunk: _, err := conn.Write(data); return err.  ScanStream drops the
\* error and goes on: to sendEOF when Read had returned an error, to the
\* next Read otherwise.
SendChunkData ==
    /\ pc = "chunk_data"
    /\ \E out \in WriteOutcomes :
          /\ Write(Frame("sendChunk.data", <<>>, <<>>, srcOff - nr, nr), out)
          /\ IF op = "sendChunk"
             THEN pc' = "returned" /\ ret' = IF out = "ok" THEN "nil" ELSE "err"
             ELSE pc' = (IF rerr THEN "sendEOF" ELSE "relay") /\ UNCHANGED ret
    /\ UNCHANGED <<op, nr, rerr, readerVars, cpc, consumerVars, sourceVars,
                   abortVars>>
    /\ UNCHANGED <<resolverVars, path>>

\* err = conn.sendEOF(); if err != nil { return nil, err }
SendEOF ==
    /\ pc = "sendEOF"
    /\ \E out \in WriteOutcomes :
          /\ Write(Frame("sendEOF", <<>>, EOFMarker, 0, 0), out)
          /\ IF out = "ok"
             THEN pc' = "readResponse" /\ UNCHANGED ret
             ELSE pc' = "returned" /\ ret' = "err"
    /\ UNCHANGED <<op, nr, rerr, readerVars, cpc, consumerVars, sourceVars,
                   abortVars>>
    /\ UNCHANGED <<resolverVars, path>>

(***************************************************************************)
(* The specifications.                                                     *)
(***************************************************************************)
Next ==
    \/ Dial
    \/ SimpleSendCommand
    \/ ReadResponse
    \/ ReaderLine
    \/ ReaderFill
    \/ ReaderEOF
    \/ ReaderError
    \/ ReaderCloseCh
    \/ ReaderWgDone
    \/ AckRecv
    \/ AckRecvClosed
    \/ StatsRecv
    \/ StatsRecvClosed
    \/ ConsumerRecv
    \/ ConsumerRecvClosed
    \/ CloserWait
    \/ CloserClose
    \/ WatcherRecvValue
    \/ WatcherRecvClosed
    \/ WatcherClose
    \/ AbortClose
    \/ StreamSendCommand
    \/ RelayRead
    \/ SendChunkLen
    \/ SendChunkData
    \/ SendEOF

Spec == Init /\ [][Next]_vars

(***************************************************************************)
(* The operations built on simpleCommand alone, with the scheduling the Go *)
(* runtime gives: a goroutine that can take a step eventually takes one,   *)
(* and the consumer of the channel keeps receiving.                        *)
(***************************************************************************)
InitSimple == Init /\ op \in SimpleOps

ReaderStep ==
    \/ ReaderLine
    \/ ReaderFill
    \/ ReaderEOF
    \/ ReaderError
    \/ ReaderCloseCh
    \/ ReaderWgDone

CloserStep ==
    \/ CloserWait
    \/ CloserClose

CallerStep ==
    \/ Dial
    \/ SimpleSendCommand
    \/ ReadResponse
    \/ AckRecv
    \/ AckRecvClosed
    \/ StatsRecv
    \/ StatsRecvClosed

ConsumerStep ==
    \/ ConsumerRecv
    \/ ConsumerRecvClosed

NextSimple ==
    \/ CallerStep
    \/ ReaderStep
    \/ CloserStep
    \/ ConsumerStep

FairSpec ==
    /\ InitSimple
    /\ [][NextSimple]_vars
    /\ WF_vars(CallerStep)
    /\ WF_vars(ReaderStep)
    /\ WF_vars(CloserStep)
    /\ WF_vars(ConsumerStep)

(***************************************************************************)
(* The calls of Spec, and beside them sendChunk applied on its own to a    *)
(* buffer of any of these lengths on an open connection.                   *)
(***************************************************************************)
ChunkLens == {0, 1, 255, 256, 452, 1024, 65535, 65536, 16777215, 16777216,
              305419896, 2147483647}

InitChunk ==
    /\ op = "sendChunk"
    /\ pc = "chunk_len" /\ ret = "none"
    /\ conn = "open" /\ failures = 0 /\ writes = <<>>
    /\ resp = <<>> /\ bufEnd = 0 /\ rpos = 0 /\ rpc = "idle" /\ rend = "none"
    /\ cur = NoRecord /\ chClosed = FALSE /\ wgDone = FALSE /\ cpc = "idle"
    /\ delivered = <<>> /\ sawClose = FALSE
    /\ nr \in ChunkLens /\ srcLen = nr /\ srcOff = nr /\ shortReads = 0
    /\ rerr = FALSE /\ abort = "nil" /\ abortSent = 0 /\ wpc = "idle"
    /\ address = SocketPath /\ dialed = NoDial /\ path = <<>>

SpecChunk == (Init \/ InitChunk) /\ [][Next]_vars

(***************************************************************************)
(* parseResult on its own: a line is drawn, the parser is applied to it    *)
(* and the record is kept in cur.                                          *)
(***************************************************************************)
\* what may stand before the separator
ParsePaths == { <<>>, <<"f">>, <<"/", "t">> }
\* what may stand where ": " is expected
ParseSeps == { <<":", " ">>, <<":">>, <<" ">> }
\* what may stand between the separator and the status
ParseDetails ==
    { <<>>, <<" ">>,
      <<"E", " ">>, <<"E", "(", "h", ":", "6", "8", ")", " ">>, <<"E", "(", "h", ":", "6", "8", ")">>,
      <<"(", "h", ":", "6", "8", ")", " ">>, <<"E", "(", "h", ":", ")", " ">>, <<"E", "(", ":", "6", "8", ")", " ">>,
      <<"E", "(", "h", ":", "6", "x", ")", " ">>, <<"E", "(", "(", "h", ":", "0", "7", ")", " ">>, <<"E", "(", "a", "(", "b", ":", "1", ")", " ">>,
      <<"E", "(", "h", ":", "0", ")", ")", " ">>, <<"E", " ", "(", "h", ":", "0", ")", " ">>, <<"a", ":", "b", " ">>,
      <<"E", "(", "h", ":", "9", "9", "9", "9", "9", "9", "9", "9", "9", "9", "9", "9", "9", "9", "9", "9", "9", "9", "9", "9", ")", " ">>,
      <<"E", "(", "h", ":", "0", "0", "0", "0", "0", "0", "0", "0", "0", "0", "0", "0", "0", "0", "0", "0", "0", "0", "0", "0", "0", "1", "2", ")", " ">>,
      <<"E", "(", "h", ":", "-", "1", ")", " ">> }
\* what may stand where the status is expected
ParseStatuses == { RES_OK, RES_FOUND, RES_ERROR, <<"O", "K", " ">>, <<"o", "k">>, <<>> }
\* the two lines of a clean and of an infected file
CleanLine == <<"/", "t", "m", "p", "/", "f", "i", "l", "e", ":", " ", "O", "K">>
InfectedLine ==
    <<"/", "t", "m", "p", "/", "f", "i", "l", "e", ":", " ", "E", "i", "c", "a", "r", "-", "T", "e", "s", "t", "-", "S", "i", "g", "n", "a", "t", "u", "r", "e", "(", "a", "b", "c", "d", "1", "2", "3", "4", ":", "6", "8", ")", " ", "F", "O", "U", "N", "D">>
ParseLines ==
    { p \o s \o d \o t : p \in ParsePaths, s \in ParseSeps, d \in ParseDetails,
                         t \in ParseStatuses }
    \cup { CleanLine, InfectedLine }

InitParse ==
    /\ op = "parseResult"
    /\ pc = "parse" /\ ret = "none"
    /\ conn = "none" /\ failures = 0 /\ writes = <<>>
    /\ resp \in ParseLines /\ bufEnd = 0 /\ rpos = 0 /\ rpc = "idle"
    /\ rend = "none" /\ cur = NoRecord /\ chClosed = FALSE /\ wgDone = FALSE
    /\ cpc = "idle" /\ delivered = <<>> /\ sawClose = FALSE
    /\ nr = 0 /\ srcLen = 0 /\ srcOff = 0 /\ shortReads = 0
    /\ rerr = FALSE /\ abort = "nil" /\ abortSent = 0 /\ wpc = "idle"
    /\ address = SocketPath /\ dialed = NoDial /\ path = <<>>

ParseLine ==
    /\ op = "parseResult"
    /\ pc = "parse"
    /\ cur' = parseResult(resp)
    /\ pc' = "returned"
    /\ UNCHANGED <<op, ret, nr, rerr, connVars, resp, bufEnd, rpos, rpc, rend,
                   chClosed, wgDone, cpc, consumerVars, sourceVars, abortVars>>
    /\ UNCHANGED <<resolverVars, path>>

NextParse == ParseLine

SpecParse == InitParse /\ [][NextParse]_vars

(***************************************************************************)
(* newConnection over the addresses: a call made on a Clamd value with any *)
(* of them, next to the calls of Spec.                                     *)
(***************************************************************************)
InitResolve ==
    /\ Fresh
    /\ op \in {"Ping", "ScanStream"}
    /\ address \in Addresses /\ path = <<>>
    /\ resp = IF op = "Ping" THEN PONG \o <<"\n">> ELSE <<>>
    /\ srcLen = 0
    /\ abort = "nil"

SpecResolve == (Init \/ InitResolve) /\ [][Next]_vars

(***************************************************************************)
(* Stats over responses made of the lines of a statistics report, next to  *)
(* the calls of Spec.                                                      *)
(***************************************************************************)
StatsLines ==
    { <<"P", "O", "O", "L", "S", ":", " ", "1", "\n">>,
      <<"P", "O", "O", "L", "S", "\n">>,
      <<"P", "O", "O", "L", "S", ":", "\n">>,
      <<"P", "O", "O", "L", "S", "I", "D", "E", " ", "\r", "\n">>,
      <<"S", "T", "A", "T", "E", ":", " ", "V", "\n">>,
      <<"T", "H", "R", "E", "A", "D", "S", ":", " ", "1", "\n">>,
      <<"Q", "U", "E", "U", "E", ":", " ", "0", "\n">>,
      <<"\t", "S", "T", "A", "T", "S", " ", "0", "\n">>,
      <<"M", "E", "M", "S", "T", "A", "T", "S", ":", " ", "h", "\n">>,
      <<"E", "N", "D", "\n">>,
      <<"\n">> }

RECURSIVE StatsStreams(_)
StatsStreams(n) ==
    IF n = 0 THEN { <<>> }
    ELSE StatsStreams(n - 1) \cup
         { s \o l : s \in { t \in StatsStreams(n - 1) : Count(t, "\n", Len(t)) = n - 1 },
                    l \in StatsLines }

InitStats ==
    /\ Fresh
    /\ op = "Stats"
    /\ address = SocketPath /\ path = <<>>
    /\ resp \in { s \o t : s \in StatsStreams(MaxLines), t \in {<<>>, KwEnd} }
    /\ srcLen = 0
    /\ abort = "nil"

SpecStats == (Init \/ InitStats) /\ [][Next]_vars

(***************************************************************************)
(* The scan operations over paths, next to the calls of Spec.              *)
(***************************************************************************)
InitScan ==
    /\ Fresh
    /\ op \in ScanOps
    /\ address = SocketPath
    /\ path \in Paths
    /\ resp \in StreamResponses
    /\ srcLen = 0
    /\ abort = "nil"

SpecScan == (Init \/ InitScan) /\ [][Next]_vars

(***************************************************************************)
(* What the properties below speak of.                                     *)
(***************************************************************************)
\* the number of newline-terminated lines of the response
TotalLines == Count(resp, "\n", Len(resp))

\* the position of the newline that ends line i
LineEnd(i) == CHOOSE q \in 1..Len(resp) : resp[q] = "\n" /\ Count(resp, "\n", q) = i

\* line i of the response, without its newline
LineText(i) == SubSeq(resp, IF i = 1 THEN 1 ELSE LineEnd(i - 1) + 1, LineEnd(i) - 1)

\* the lines the reader has taken from the response so far
LinesTaken == Count(resp, "\n", rpos)

\* the last Write of a step that wrote, and whether it failed
WroteAndFailed == Len(writes') = Len(writes) + 1 /\ ~ writes'[Len(writes')].ok

(***************************************************************************)
\* a chunk of the source has reached the daemon
UploadBegun == \E i \in 1..Len(writes) : writes[i].ok /\ writes[i].f = "sendChunk.data"

(***************************************************************************)
(* C1.  In ScanStream the abort signal closes the connection at once in    *)
(* both forms: once the watcher has received a value from the abort        *)
(* channel it waits for nothing more and closes the connection, as it does *)
(* once the channel is closed.                                             *)
(***************************************************************************)
C1_AbortClosesConnection ==
    /\ abortSent > 0 => wpc \in {"close", "done"}
    /\ wpc = "done" => conn = "closed"

(***************************************************************************)
(* C2.  Cancellation during the upload: once the connection is closed the  *)
(* relay sends no further chunk after a chunk write has failed, and the    *)
(* call that reaches the end of the upload with the connection closed      *)
(* returns the result channel.                                             *)
(***************************************************************************)
C2_CancelDuringUpload ==
    [][(op = "ScanStream" /\ conn = "closed" /\ UploadBegun)
         => /\ (pc = "chunk_data" => pc' # "relay")
            /\ (pc = "sendEOF" /\ pc' = "returned" => ret' = "ch")]_vars

(***************************************************************************)
(* C4.  Ping and Reload return success only for a response that is exactly *)
(* one line equal to the expected acknowledgement, and an error value (not *)
(* success, not a fault) for every other response (read without a read     *)
(* error).                                                                 *)
(***************************************************************************)
C4_AckOnlyOnExactReply ==
    (op \in {"Ping", "Reload"} /\ pc = "returned" /\ Wire # <<>> /\ rend # "error")
        => /\ ret \in {"nil", "err"}
           /\ ret = "nil" <=> /\ TotalLines = 1
                              /\ LineEnd(1) = Len(resp)
                              /\ TrimRight(LineText(1)) = Expected(op)

(***************************************************************************)
(* C5.  Every write that fails is surfaced where it fails: the step that   *)
(* performed it returns an error to the caller of the operation.           *)
(***************************************************************************)
C5_WriteFailureSurfaced ==
    [][WroteAndFailed => (pc' = "returned" /\ ret' = "err")]_vars

(***************************************************************************)
(* C3.  The records received are the parsed, right-trimmed lines of the    *)
(* response in the daemon's order, none lost, repeated, reordered or       *)
(* invented; the reader holds at most one record not yet received, and     *)
(* takes the next line only after handing that one over; a reader that     *)
(* saw the end of the stream has delivered every line.                     *)
(***************************************************************************)
C3_OrderedDelivery ==
    /\ \A i \in 1..Len(delivered) : delivered[i] = parseResult(TrimRight(LineText(i)))
    /\ LinesTaken = Len(delivered) + (IF rpc = "send" THEN 1 ELSE 0)
    /\ rpc = "send" => cur = parseResult(TrimRight(LineText(LinesTaken)))
    /\ rend = "eof" => Len(delivered) = TotalLines

C3_Witness ==
    /\ rend = "eof"
    /\ Len(delivered) = 2
    /\ delivered[1].Raw = PONG
    /\ delivered[2].Status = RES_OK
    /\ EndsWith(SubSeq(resp, 1, LineEnd(1)), <<" ", "\r", "\n">>)

(***************************************************************************)
(* C7.  The connection is closed by the goroutine that waits on the        *)
(* WaitGroup only after the reader saw the end of the stream or a read     *)
(* error, every record it produced was received, and the channel was       *)
(* closed; without a cancellation the connection is closed by nobody else. *)
(***************************************************************************)
C7_CloseAfterDrain ==
    /\ cpc \in {"close", "done"}
          => /\ rend # "none"
             /\ chClosed
             /\ Len(delivered) = LinesTaken
    /\ (conn = "closed" /\ wpc \notin {"close", "done"}) => cpc = "done"

C7_Witness ==
    /\ conn = "closed"
    /\ cpc = "done"
    /\ wpc \notin {"close", "done"}
    /\ Len(delivered) = 2

(***************************************************************************)
(* C10.  A line that does not match the grammar does not end the response: *)
(* it is delivered in its place as a PARSE ERROR record, the reader ends   *)
(* only on what ReadString returns (never holding an undelivered record),  *)
(* at the end of the stream every line was delivered, and the call that    *)
(* handed out the channel did not fail.                                    *)
(***************************************************************************)
MalformedLines == { PONG, RELOADING, <<"x">> }

C10_MalformedLineDelivered ==
    /\ \A i \in 1..Len(delivered) :
          TrimRight(LineText(i)) \in MalformedLines
             => /\ delivered[i].Status = RES_PARSE_ERROR
                /\ delivered[i].Raw = TrimRight(LineText(i))
                /\ delivered[i].Description = NoMatchDescription
    /\ rpc \in {"close", "done_wg", "done"} => Len(delivered) = LinesTaken
    /\ rend = "eof" => LinesTaken = TotalLines
    /\ rpc # "idle" => ret # "err" \/ op \in {"Ping", "Reload"}

C10_Witness ==
    /\ op = "Version"
    /\ ret = "ch"
    /\ rend = "eof"
    /\ Len(delivered) = 2
    /\ delivered[1].Status = RES_PARSE_ERROR
    /\ delivered[1].Raw = <<"x">>
    /\ delivered[2].Status = RES_OK

(***************************************************************************)
(* C6.  simpleCommand with a consumer that keeps receiving: once the       *)
(* reader's ReadString has returned io.EOF or another error, the channel   *)
(* is closed, the WaitGroup is done, the connection is closed and the      *)
(* consumer finds the channel closed, with no error returned; the same     *)
(* for both kinds of end.                                                  *)
(***************************************************************************)
C6_EndOfStreamClosesAll ==
    (op \in {"Stats", "Version"} /\ rend # "none")
        ~> (chClosed /\ wgDone /\ conn = "closed" /\ sawClose /\ ret \in {"nil", "ch"})

C6_Witness ==
    /\ op = "Version"
    /\ rend = "error"
    /\ Len(delivered) = 1
    /\ chClosed /\ wgDone /\ conn = "closed" /\ sawClose

(***************************************************************************)
(* C8.  What ScanStream writes.                                            *)
(***************************************************************************)
AllWritesOk == \A i \in 1..Len(writes) : writes[i].ok

DataWrites == {i \in 1..Len(writes) : writes[i].f = "sendChunk.data"}

\* every read of the source filled the buffer while CHUNK_SIZE bytes remained
FilledReads ==
    \A i \in DataWrites :
        srcLen - writes[i].off >= CHUNK_SIZE => writes[i].len = CHUNK_SIZE

\* every read of the source returned as many bytes as fit
FullReads ==
    \A i \in DataWrites : writes[i].len = Min(CHUNK_SIZE, srcLen - writes[i].off)

\* the chunk frame (prefix, payload) of n bytes of the source from offset off
ChunkFrames(off, n) ==
    << Frame("sendChunk.len", <<>>, LenPrefix(n), 0, 0),
       Frame("sendChunk.data", <<>>, <<>>, off, n) >>

RECURSIVE FullChunks(_, _)
FullChunks(off, k) ==
    IF k = 0 THEN <<>>
    ELSE ChunkFrames(off, CHUNK_SIZE) \o FullChunks(off + CHUNK_SIZE, k - 1)

ExpectedWrites(n) ==
    << Frame("sendCommand", <<"n", "I", "N", "S", "T", "R", "E", "A", "M", "\n">>,
             <<>>, 0, 0) >>
    \o FullChunks(0, n \div CHUNK_SIZE)
    \o (IF n % CHUNK_SIZE # 0
        THEN ChunkFrames(n - (n % CHUNK_SIZE), n % CHUNK_SIZE) ELSE <<>>)
    \o << Frame("sendEOF", <<>>, <<0, 0, 0, 0>>, 0, 0) >>

\* the payloads written, put end to end, are the bytes of the source in order
PayloadsAreSource ==
    /\ \A i \in DataWrites :
          writes[i].off = (IF \E j \in DataWrites : j < i
                           THEN LET j == CHOOSE j \in DataWrites :
                                            j < i /\ \A m \in DataWrites : m < i => m <= j
                                IN  writes[j].off + writes[j].len
                           ELSE 0)
    /\ \A i \in DataWrites : writes[i].len > 0
    /\ ret = "ch" => (IF DataWrites = {} THEN srcLen = 0
                      ELSE \E i \in DataWrites : writes[i].off + writes[i].len = srcLen)

\* the response is read only after the terminator was written
ReadAfterTerminator ==
    rpc # "idle" => (writes # <<>> /\ writes[Len(writes)].f = "sendEOF"
                     /\ writes[Len(writes)].ok)

(***************************************************************************)
(* C8, as claimed: with no cancellation and no write failure, for a source *)
(* whose reads fill the buffer whenever CHUNK_SIZE bytes remain, the       *)
(* writes are the INSTREAM command, floor(N/1024) chunks of 1024 bytes,    *)
(* one chunk of N mod 1024 bytes when that is not zero, and one            *)
(* terminator.                                                             *)
(***************************************************************************)
C8_FramesWhenBufferFilled ==
    (op = "ScanStream" /\ ret = "ch" /\ AllWritesOk /\ FilledReads)
        => writes = ExpectedWrites(srcLen)

(***************************************************************************)
(* C8, amended: the same for a source whose every read returns as many     *)
(* bytes as fit (min(1024, remaining)); and for every source the payloads  *)
(* put end to end are the source's bytes, and the response is read only    *)
(* after the terminator.                                                   *)
(***************************************************************************)
C8_FramesWhenReadsFull ==
    op = "ScanStream"
        => /\ (ret = "ch" /\ AllWritesOk /\ FullReads) => writes = ExpectedWrites(srcLen)
           /\ AllWritesOk => PayloadsAreSource
           /\ ReadAfterTerminator

C8_Witness ==
    /\ op = "ScanStream"
    /\ ret = "ch"
    /\ srcLen = 2500
    /\ AllWritesOk
    /\ FullReads
    /\ Len(writes) = 8
    /\ writes[7].len = 452
    /\ rpc = "read"

(***************************************************************************)
(* C9, as claimed: a length prefix of four zero bytes is written only by   *)
(* sendEOF, by ScanStream and by sendChunk itself.                         *)
(***************************************************************************)
C9_ZeroPrefixOnlySentinel ==
    \A i \in 1..Len(writes) : writes[i].hdr = EOFMarker => writes[i].f = "sendEOF"

(***************************************************************************)
(* C9, amended: ScanStream never writes a zero-length chunk, whatever the  *)
(* source's reads return: four zero bytes are written only by sendEOF,     *)
(* once and as the last write, and they are on the wire when the call      *)
(* returns the channel.  sendChunk itself does not refuse an empty buffer: *)
(* it writes the four zero bytes of the sentinel.                          *)
(***************************************************************************)
C9_ScanStreamSentinelOnly ==
    /\ op = "ScanStream"
          => /\ \A i \in 1..Len(writes) :
                   writes[i].hdr = EOFMarker
                      => writes[i].f = "sendEOF" /\ i = Len(writes)
             /\ \A i \in 1..Len(writes) :
                   writes[i].f = "sendEOF" => i = Len(writes)
             /\ ret = "ch" => writes[Len(writes)].f = "sendEOF" /\ writes[Len(writes)].ok
    /\ (op = "sendChunk" /\ nr = 0 /\ writes # <<>>) => writes[1].hdr = EOFMarker

C9_Witness ==
    /\ op = "ScanStream"
    /\ ret = "ch"
    /\ shortReads = 1
    /\ srcLen = 452
    /\ Len(writes) = 4
    /\ writes[4].hdr = EOFMarker

(***************************************************************************)
(* The response grammar, read from the pattern as a decomposition of the   *)
(* whole line:  path ": " [ desc [ "(" virhash ":" virsize ")" ] " " ]     *)
(* status, where path, desc and virhash hold no colon and are not empty    *)
(* and virsize is a non-empty run of digits.                               *)
(***************************************************************************)
NoColon(s) == s # <<>> /\ \A i \in 1..Len(s) : s[i] # ":"

AllDigits(s) == s # <<>> /\ \A i \in 1..Len(s) : s[i] \in Digits

IsSignature(g) ==
    /\ Len(g) >= 5
    /\ g[1] = "(" /\ g[Len(g)] = ")"
    /\ \E k \in 3..(Len(g) - 2) :
          /\ g[k] = ":"
          /\ NoColon(SubSeq(g, 2, k - 1))
          /\ AllDigits(SubSeq(g, k + 1, Len(g) - 1))

IsDetail(b) ==
    /\ Len(b) >= 2
    /\ b[Len(b)] = " "
    /\ \E j \in 1..(Len(b) - 1) :
          /\ NoColon(SubSeq(b, 1, j))
          /\ j = Len(b) - 1 \/ IsSignature(SubSeq(b, j + 1, Len(b) - 1))

MatchesGrammar(line) ==
    \E a \in 1..Len(line), t \in StatusTokens :
        /\ NoColon(SubSeq(line, 1, a))
        /\ Len(line) >= a + 2 + Len(t)
        /\ line[a + 1] = ":" /\ line[a + 2] = " "
        /\ EndsWith(line, t)
        /\ LET b == SubSeq(line, a + 3, Len(line) - Len(t))
           IN  b = <<>> \/ IsDetail(b)

\* the status token a line ends with
StatusWritten(line) == CHOOSE t \in StatusTokens : EndsWith(line, t)

\* a matching line carries the "(virhash:virsize)" group exactly when it
\* holds a second colon
SignatureWritten(line) == Count(line, ":", Len(line)) = 2

\* the text between the second colon and the closing parenthesis
SizeWritten(line) ==
    LET c == IndexAfter(line, ":", IndexAfter(line, ":", 0))
        e == Len(line) - Len(StatusWritten(line)) - 2
    IN  SubSeq(line, c + 1, e)

\* the text between the last opening parenthesis before the second colon
\* and that colon
HashWritten(line) ==
    LET c == IndexAfter(line, ":", IndexAfter(line, ":", 0))
        o == CHOOSE i \in 1..(c - 2) :
                 line[i] = "(" /\ \A j \in (i + 1)..(c - 2) : line[j] # "("
    IN  SubSeq(line, o + 1, c - 1)

Parsed == op = "parseResult" /\ pc = "returned"

\* sizes written in the lines drawn, and the numbers they denote
KnownSizes ==
    { <<<<"6", "8">>, 68>>, <<<<"0", "7">>, 7>>, <<<<"1">>, 1>>, <<<<"0">>, 0>>,
      <<<<"0", "0", "0", "0", "0", "0", "0", "0", "0", "0", "0", "0",
          "0", "0", "0", "0", "0", "0", "0", "0", "0", "1", "2">>, 12>>,
      <<<<"9", "9", "9", "9", "9", "9", "9", "9", "9", "9", "9", "9", "9", "9",
          "9", "9", "9", "9", "9", "9">>, 0>> }

\* C11 as stated: every record the parser produces with status FOUND has a
\* non-empty Hash.
C11_FoundHasSignature ==
    Parsed => (cur.Status = RES_FOUND => cur.Hash # <<>>)

\* C11: a record with status FOUND has a non-empty Hash exactly when its
\* line carries the "(virhash:virsize)" group, and the Hash is then the text
\* of that group; a FOUND line without the group gives an empty Hash.
C11_FoundSignatureIffWritten ==
    (Parsed /\ cur.Status = RES_FOUND) =>
        /\ cur.Hash # <<>> <=> SignatureWritten(resp)
        /\ SignatureWritten(resp) => cur.Hash = HashWritten(resp)

C11_Witness ==
    /\ Parsed
    /\ resp = InfectedLine
    /\ cur.Status = RES_FOUND
    /\ cur.Hash = <<"a", "b", "c", "d", "1", "2", "3", "4">>

\* C12 as stated: for a line matching the grammar, status OK or ERROR means
\* that status with empty Hash and Size 0, and a signature group means status
\* FOUND with Size the integer written in the line.
C12_SignatureOnlyWithFound ==
    (Parsed /\ MatchesGrammar(resp)) =>
        /\ StatusWritten(resp) \in {RES_OK, RES_ERROR} =>
              /\ cur.Status = StatusWritten(resp)
              /\ cur.Hash = <<>>
              /\ cur.Size = 0
        /\ SignatureWritten(resp) =>
              /\ cur.Status = RES_FOUND
              /\ \E k \in KnownSizes :
                    /\ k[1] = SizeWritten(resp)
                    /\ Len(StripZeros(k[1])) < 19
                    /\ cur.Size = k[2]

\* C12: for a line matching the grammar the record's status is the status
\* written, whatever else the line holds; without a signature group Hash is
\* empty and Size is 0; with one, Hash is the group's text and Size is the
\* integer written, or 0 when that integer does not fit 64 bits.
C12_SignatureWithAnyStatus ==
    (Parsed /\ MatchesGrammar(resp)) =>
        /\ cur.Status = StatusWritten(resp)
        /\ ~ SignatureWritten(resp) => cur.Hash = <<>> /\ cur.Size = 0
        /\ SignatureWritten(resp) =>
              /\ cur.Hash = HashWritten(resp)
              /\ \E k \in KnownSizes :
                    k[1] = SizeWritten(resp) /\ cur.Size = k[2]

C12_Witness ==
    /\ Parsed
    /\ MatchesGrammar(resp)
    /\ SignatureWritten(resp)
    /\ cur.Status = RES_OK
    /\ cur.Hash = <<"h">>
    /\ cur.Size = 7

\* C13: parseResult returns a record for every line, with Raw the line; the
\* status is PARSE ERROR exactly when the whole line is not of the grammar,
\* and then Description is the fixed text and Path, Hash and Size are empty;
\* otherwise the status is OK, FOUND or ERROR.
C13_ParseResultTotal ==
    Parsed =>
        /\ cur.Raw = resp
        /\ cur.Status = RES_PARSE_ERROR <=> ~ MatchesGrammar(resp)
        /\ cur.Status = RES_PARSE_ERROR =>
              /\ cur.Description = NoMatchDescription
              /\ cur.Path = <<>> /\ cur.Hash = <<>> /\ cur.Size = 0
        /\ cur.Status # RES_PARSE_ERROR => cur.Status \in StatusTokens

C13_Witness ==
    /\ Parsed
    /\ cur.Status = RES_PARSE_ERROR
    /\ cur.Raw = resp
    /\ EndsWith(resp, RES_OK)
    /\ Count(resp, ":", Len(resp)) = 2

\* C14: once newConnection has run, a dial was made for the address: over
\* TCP to the URL's host for scheme tcp, to the URL's path as a domain socket
\* for scheme unix, and to the whole address as a domain socket for every
\* other address, one that url.Parse refuses included.
C14_EveryAddressDialed ==
    (op \in Ops /\ pc # "start") =>
        LET u == Parse(address)
        IN  IF ~ u.err /\ u.Scheme = <<"t", "c", "p">>
            THEN dialed = [network |-> "tcp", target |-> u.Host]
            ELSE IF ~ u.err /\ u.Scheme = <<"u", "n", "i", "x">>
            THEN dialed = [network |-> "unix", target |-> u.Path]
            ELSE dialed = [network |-> "unix", target |-> address]

\* the last of the lines taken from the response that starts with kw, 0 when
\* there is none
SectionLine(kw) ==
    LET I == {i \in 1..LinesTaken : HasPrefix(TrimRight(LineText(i)), kw)}
    IN  IF I = {} THEN 0 ELSE CHOOSE i \in I : \A j \in I : j <= i

SectionText(kw) ==
    IF SectionLine(kw) = 0 THEN <<>> ELSE TrimRight(LineText(SectionLine(kw)))

StatsFieldsReflectLines ==
    LET stats == StatsRecord(delivered)
    IN  /\ stats.Pools = TrimSpaces(SubSeq(SectionText(KwPools), 7, Len(SectionText(KwPools))))
        /\ stats.State = SectionText(KwState)
        /\ stats.Threads = SectionText(KwThreads)
        /\ stats.Queue = SectionText(KwQueue)
        /\ stats.Memstats = SectionText(KwMemstats)

\* C15: whatever the response, a Stats call whose command was sent returns
\* a record and no fault, after the channel was closed and every line taken
\* was received, and each field of the record is that of the last line that
\* starts with its keyword (empty when there is none).
C15_StatsReturnsForEveryResponse ==
    (op = "Stats" /\ pc = "returned" /\ ret # "err") =>
        /\ ret = "nil"
        /\ chClosed /\ sawClose
        /\ Len(delivered) = LinesTaken
        /\ StatsFieldsReflectLines

\* what a reader of the stream makes of four prefix bytes: an unsigned
\* number, most significant byte first
DecodePrefix(h) == ((h[1] * 256 + h[2]) * 256 + h[3]) * 256 + h[4]

\* C16: each sendChunk writes four bytes that decode, as a big-endian
\* unsigned number, to the length of its payload, and next the payload as it
\* was handed over: the same bytes of the source, from the same offset.
C16_PrefixDecodesToLength ==
    \A i \in 1..Len(writes) :
        writes[i].f = "sendChunk.len" =>
            /\ Len(writes[i].hdr) = 4
            /\ \A b \in 1..4 : writes[i].hdr[b] \in 0..255
            \* the lengths of ChunkLens are below 2^31
            /\ writes[i].hdr[1] < 128
            /\ IF i = Len(writes)
               THEN pc = "chunk_data" /\ DecodePrefix(writes[i].hdr) = nr
               ELSE /\ writes[i + 1].f = "sendChunk.data"
                    /\ writes[i + 1].len = DecodePrefix(writes[i].hdr)
                    /\ writes[i + 1].hdr = <<>> /\ writes[i + 1].text = <<>>
                    /\ op = "sendChunk" =>
                          writes[i + 1].off = 0 /\ writes[i + 1].len = srcLen

C16_Witness ==
    /\ op = "sendChunk"
    /\ nr = 2147483647
    /\ ret = "nil"
    /\ Len(writes) = 2
    /\ writes[1].ok /\ writes[2].ok
    /\ writes[1].hdr = <<127, 255, 255, 255>>
    /\ writes[2].len = 2147483647

\* the bytes of the one command line each operation sends
CommandLines ==
    [o \in Ops |->
        CASE o = "Ping" -> <<"n", "P", "I", "N", "G", "\n">>
          [] o = "Reload" -> <<"n", "R", "E", "L", "O", "A", "D", "\n">>
          [] o = "Shutdown" ->
                <<"n", "S", "H", "U", "T", "D", "O", "W", "N", "\n">>
          [] o = "Stats" -> <<"n", "S", "T", "A", "T", "S", "\n">>
          [] o = "Version" ->
                <<"n", "V", "E", "R", "S", "I", "O", "N", "\n">>
          [] o = "ScanStream" ->
                <<"n", "I", "N", "S", "T", "R", "E", "A", "M", "\n">>]

OneRecordOps == {"Ping", "Reload", "Shutdown"}

\* C18: for Ping, Reload and Shutdown the reader is never left at its send
\* on the channel once the call has returned.  After the return nothing
\* receives from the channel any more, so a reader found there stays there,
\* never calls wg.Done(), and the connection is never closed.
C18_ReaderNotLeftAtHandOff ==
    (op \in OneRecordOps /\ pc = "returned") => rpc # "send"

\* simpleCommand returned the error of its command Write
CommandWriteFailed ==
    /\ op \in SimpleOps
    /\ pc = "returned" /\ ret = "err"
    /\ Len(writes) = 1 /\ ~ writes[1].ok

\* ScanStream returned the error of sendEOF
EOFWriteFailed ==
    /\ op = "ScanStream"
    /\ pc = "returned" /\ ret = "err"
    /\ writes # <<>>
    /\ writes[Len(writes)].f = "sendEOF" /\ ~ writes[Len(writes)].ok

\* C19: when simpleCommand or ScanStream has returned the error of a Write
\* on the connection it opened, the connection is closed, or a goroutine of
\* the call is on its way to closing it with nothing more asked of the
\* caller: the one that waits for the reader, or the abort watcher when the
\* abort channel is closed already.
C19_ErrorReturnClosesConnection ==
    (CommandWriteFailed \/ EOFWriteFailed) =>
        \/ conn = "closed"
        \/ cpc \in {"wait", "close"}
        \/ wpc = "close"
        \/ wpc = "recv" /\ abort = "closed"

\* C20: once ScanStream has returned the channel, the channel is closed and
\* the reader and the goroutine that waits and closes have finished, the
\* abort watcher has finished as well or can finish with nothing sent on the
\* abort channel and without its being closed later: it is past its receive,
\* or the channel is closed already.
C20_WatcherFinishesUnasked ==
    (op = "ScanStream" /\ ret = "ch" /\ chClosed /\ rpc = "done" /\ cpc = "done") =>
        \/ wpc \in {"close", "done"}
        \/ wpc = "recv" /\ abort = "closed"

\* C21: whatever path a scan operation is called with, one holding newlines
\* included, what it writes on the connection is one command line: one
\* Write, with exactly one newline in it, as its last byte.
C21_OneCommandLine ==
    (op \in ScanOps /\ writes # <<>>) =>
        /\ Len(writes) = 1
        /\ LET t == writes[1].text
           IN  /\ Count(t, "\n", Len(t)) = 1
               /\ t[Len(t)] = "\n"

====
